---- MODULE Spec2Model ----
(***************************************************************************)
(* A model of ap-drawing (src/src/main.rs): a pixel canvas driven by the   *)
(* nannou loop  events* -> update -> view.  Coordinates that the program   *)
(* keeps in f32 are exact rationals <<numerator, denominator>> here.       *)
(***************************************************************************)
EXTENDS Integers, Sequences, FiniteSets, TLC

VARIABLES
    pixels,                 \* State.pixels: column x -> row y -> Pixel
    drawing,                \* State.drawing
    erasing,                \* State.erasing
    should_reset,           \* State.should_reset
    should_exit,            \* State.should_exit
    should_calc_positions,  \* State.should_calc_positions
    brush,                  \* Settings.brush
    brush_size,             \* Settings.brush_size
    grid_size,              \* Settings.grid_size
    primary_color,          \* Settings.primary_color
    secondary_color,        \* Settings.secondary_color
    win,                    \* min(win.w(), win.h()) of app.window_rect()
    mouse,                  \* app.mouse.position(), world coordinates
    draw,                   \* the draw list view() builds for the frame
    phase                   \* position in the loop

vars == <<pixels, drawing, erasing, should_reset, should_exit,
          should_calc_positions, brush, brush_size, grid_size,
          primary_color, secondary_color, win, mouse, draw, phase>>

----------------------------------------------------------------------------
(* Bounds of the model *)

\* grid sizes the "Grid Size" slider is moved to (the program allows 1..64)
MaxGrid == 2
\* grid sizes of the one-tick brush specification
MaxBrushGrid == 5
\* how far outside the grid, in cells, the pointer of the brush specification goes
MaxOut == 1
\* column lengths of the render specification
MaxColumn == 5
\* grid sizes of the pointer specification
MaxPointerGrid == 5

(* Program constants *)

DefaultGridSize == 16

BLACK == "BLACK"
WHITE == "WHITE"
RED == "RED"
OVERLAY == "OVERLAY"

\* colours the colour pickers are set to
PickerColors == {BLACK, WHITE}
\* window sizes (the smaller side of the window)
WinSizes == {12, 24}
\* pointer positions of the application specification: in a cell of the
\* grid, outside it before the first cell, and outside it past the last column
MousePoints == {<<2, 2>>, <<-7, -7>>, <<13, -7>>}

----------------------------------------------------------------------------
(* Exact arithmetic standing in for f32 *)

Abs(n) == IF n < 0 THEN -n ELSE n

RECURSIVE GCD(_, _)
GCD(a, b) == IF b = 0 THEN a ELSE GCD(b, a % b)

\* the rational n/d in lowest terms, d > 0
Rat(n, d) ==
    LET g == GCD(Abs(n), Abs(d))
        s == IF d < 0 THEN -1 ELSE 1
    IN  <<(s * n) \div g, (s * d) \div g>>

RInt(n) == <<n, 1>>
RAdd(a, b) == Rat(a[1] * b[2] + b[1] * a[2], a[2] * b[2])
RSub(a, b) == Rat(a[1] * b[2] - b[1] * a[2], a[2] * b[2])
RMul(a, b) == Rat(a[1] * b[1], a[2] * b[2])
RDiv(a, b) == Rat(a[1] * b[2], a[2] * b[1])
RLeq(a, b) == a[1] * b[2] <= b[1] * a[2]
RHalf == <<1, 2>>

\* f32::floor and f32::ceil of a rational, as integers
Floor(a) == a[1] \div a[2]
Ceil(a) == -((-a[1]) \div a[2])

\* clamp(lo, hi) on integers
Clamp(v, lo, hi) == IF v < lo THEN lo ELSE IF v > hi THEN hi ELSE v

----------------------------------------------------------------------------
(* The grid *)

\* Pixel::default()
Pixel_default == [color |-> BLACK, x |-> RInt(0), y |-> RInt(0)]

\* vec![vec![Pixel::default(); n]; n]
NewGrid(n) == [x \in 0..(n - 1) |-> [y \in 0..(n - 1) |-> Pixel_default]]

\* pixels.len()
Side(p) == Cardinality(DOMAIN p)

\* let diff = win.w().min(win.h()) / grid_size as f32
Diff(w, gs) == Rat(w, gs)

\* (i as f32 - (h - 0.5)) * diff  with  h = (grid_size / 2) as f32
CellToWorld(i, gs, diff) ==
    RMul(RSub(RInt(i), RSub(RInt(gs \div 2), RHalf)), diff)

\* the "Recalculate pixel positions" pass
CalcPositions(p, gs, diff) ==
    [x \in DOMAIN p |->
        [y \in DOMAIN p[x] |->
            [p[x][y] EXCEPT !.x = CellToWorld(x, gs, diff),
                            !.y = CellToWorld(y, gs, diff)]]]

\* mutant: .ceil() where the code has .floor()
WorldToCell_Ceil(p, gs, diff) == Ceil(RDiv(p, diff)) + (gs \div 2)

\* (p / diff).floor() + h  with  h = (grid_size / 2) as f32
WorldToCell(p, gs, diff) == Floor(RDiv(p, diff)) + (gs \div 2)

\* (app.mouse.position().x / diff).floor() + h
PointerCell(m, gs, diff) == WorldToCell(RInt(m), gs, diff)

----------------------------------------------------------------------------
(* The brushes *)

\* the pairs (x, y) of the loops  for x in -radius..=radius, for y in ...
LoopPairs(radius) ==
    LET n == 2 * radius + 1
    IN  [k \in 1..(n * n) |-> <<((k - 1) \div n) - radius, ((k - 1) % n) - radius>>]

\* mutant: the boundary test against the truncated radius
InCircle_Truncated(pt, diameter) ==
    pt[1] * pt[1] + pt[2] * pt[2] <= (diameter \div 2) * (diameter \div 2)

\* x*x + y*y <= radius_f32 * radius_f32  with  radius_f32 = diameter / 2.0
InCircle(pt, diameter) ==
    RLeq(RInt(pt[1] * pt[1] + pt[2] * pt[2]),
         RMul(Rat(diameter, 2), Rat(diameter, 2)))

\* fn calc_circle_pixels(diameter: i32) -> Vec<(i32, i32)>
calc_circle_pixels(diameter) ==
    LET radius == diameter \div 2      \* radius_f32 as i32, diameter >= 0
        Test(pt) == InCircle(pt, diameter)
    IN  SelectSeq(LoopPairs(radius), Test)

\* mutant: .floor() where the code has .ceil()
SquareLo_Floor(pos, size) ==
    LET c == Floor(RSub(RInt(pos), Rat(size, 2)))
    IN  IF c < 0 THEN 0 ELSE c

\* first index of the square brush's loop on one axis
SquareLo(pos, size) ==
    LET c == Ceil(RSub(RInt(pos), Rat(size, 2)))
    IN  IF c < 0 THEN 0 ELSE c          \* .clamp(0.0, f32::MAX) as usize

\* mutant: the loop written ..= (end inclusive)
SquareHi_Inclusive(pos, size, gs) == Clamp(pos + Ceil(Rat(size, 2)), 0, gs) + 1

\* end (exclusive) of the square brush's loop on one axis
SquareHi(pos, size, gs) == Clamp(pos + Ceil(Rat(size, 2)), 0, gs)

\* the cells pixels[x][y] the Brush::Square arm writes
SquareTargets(pos_x, pos_y, size, gs) ==
    (SquareLo(pos_x, size)..(SquareHi(pos_x, size, gs) - 1))
        \X (SquareLo(pos_y, size)..(SquareHi(pos_y, size, gs) - 1))

\* mutant: clamped to grid_size, not grid_size - 1
CircleIndex_UpTo(off, pos, gs) == Clamp(off + pos, 0, gs)

\* one index of the Brush::Circle arm
CircleIndex(off, pos, gs) == Clamp(off + pos, 0, gs - 1)

\* mutant: offsets that leave the grid are dropped, not clamped
CircleTargets_Discard(pos_x, pos_y, size, gs) ==
    LET pts == calc_circle_pixels(size)
    IN  {<<pts[k][1] + pos_x, pts[k][2] + pos_y>> : k \in DOMAIN pts}
            \cap ((0..(gs - 1)) \X (0..(gs - 1)))

\* the cells pixels[x][y] the Brush::Circle arm writes
CircleTargets(pos_x, pos_y, size, gs) ==
    LET pts == calc_circle_pixels(size)
    IN  {<<CircleIndex(pts[k][1], pos_x, gs), CircleIndex(pts[k][2], pos_y, gs)>> :
            k \in DOMAIN pts}

\* match model.settings.brush
BrushTargets(b, pos_x, pos_y, size, gs) ==
    IF b = "Square" THEN SquareTargets(pos_x, pos_y, size, gs)
                    ELSE CircleTargets(pos_x, pos_y, size, gs)

\* mutant: the two colours taken the other way round
PaintColor_Swapped(d, primary, secondary) == IF d THEN secondary ELSE primary

\* let color = if drawing { primary_color } else { secondary_color }
PaintColor(d, primary, secondary) == IF d THEN primary ELSE secondary

\* an index outside the stored grid: pixels[x][y] panics
OutOfBounds(p, targets) ==
    \E t \in targets : t[1] \notin DOMAIN p \/ t[2] \notin DOMAIN p[t[1]]

\* pixels[x][y].color = color  for every target
SetColor(p, targets, color) ==
    [x \in DOMAIN p |->
        [y \in DOMAIN p[x] |->
            IF <<x, y>> \in targets THEN [p[x][y] EXCEPT !.color = color]
                                    ELSE p[x][y]]]

\* mutant: the paint block without its test of the two flags
TickTargets_Hover ==
    LET diff == Diff(win, grid_size)
    IN  BrushTargets(brush,
                     PointerCell(mouse[1], grid_size, diff),
                     PointerCell(mouse[2], grid_size, diff),
                     brush_size, grid_size)

\* the cells the paint block of update() writes in the current state
TickTargets ==
    LET diff == Diff(win, grid_size)
    IN  IF drawing \/ erasing
        THEN BrushTargets(brush,
                          PointerCell(mouse[1], grid_size, diff),
                          PointerCell(mouse[2], grid_size, diff),
                          brush_size, grid_size)
        ELSE {}

----------------------------------------------------------------------------
(* The render pass *)

\* for y_2 in y..pixels.len(): the count of cells from y_2 on that continue
\* the colour of pixels[x][y]
RECURSIVE CountRun(_, _, _, _)
CountRun(p, x, y, y_2) ==
    IF y_2 >= Side(p) THEN 0
    ELSE IF p[x][y].color # p[x][y_2].color THEN 0
    ELSE 1 + CountRun(p, x, y, y_2 + 1)

\* mutant: the rectangle centred on the first cell of its run
GridRect_Uncentred(pixel, amt, diff) ==
    [w     |-> diff,
     h     |-> RMul(diff, RInt(amt)),
     x     |-> pixel.x,
     y     |-> pixel.y,
     color |-> pixel.color]

\* draw.rect().w_h(diff, diff * amt).x_y(pixel.x, pixel.y + (diff * (amt - 1.0)) / 2.0)
GridRect(pixel, amt, diff) ==
    [w     |-> diff,
     h     |-> RMul(diff, RInt(amt)),
     x     |-> pixel.x,
     y     |-> RAdd(pixel.y, RDiv(RMul(diff, RInt(amt - 1)), RInt(2))),
     color |-> pixel.color]

\* the rows a scan at row y skips: if y < amt as usize { continue; }
Skipped(y, amt) == y < amt

\* the inner loop over (y, pixel) of one column, amt carried across rows
RECURSIVE ScanColumn(_, _, _, _, _)
ScanColumn(p, x, y, amt, diff) ==
    IF y >= Side(p[x]) THEN <<>>
    ELSE IF Skipped(y, amt) THEN ScanColumn(p, x, y + 1, amt, diff)
    ELSE LET run == CountRun(p, x, y, y)
         IN  <<GridRect(p[x][y], run, diff)>> \o ScanColumn(p, x, y + 1, run, diff)

\* the "Draw grid" loop over the columns from x on
RECURSIVE GridRects(_, _, _)
GridRects(p, x, diff) ==
    IF x >= Side(p) THEN <<>>
    ELSE ScanColumn(p, x, 0, 0, diff) \o GridRects(p, x + 1, diff)

\* ((mouse / diff).floor() + 0.5) * diff
MousePos(m, diff) == RMul(RAdd(RInt(Floor(RDiv(RInt(m), diff))), RHalf), diff)

\* mutant: the preview of an even size left centred on the pointer's cell
SquareOverlay_NoShift(m, size, diff) ==
    <<[w     |-> RMul(diff, RInt(size)),
       h     |-> RMul(diff, RInt(size)),
       x     |-> MousePos(m[1], diff),
       y     |-> MousePos(m[2], diff),
       color |-> OVERLAY]>>

\* the Brush::Square preview: one rectangle, shifted half a cell for even sizes
SquareOverlay(m, size, diff) ==
    LET shift == IF size % 2 = 0 THEN RDiv(diff, RInt(2)) ELSE RInt(0)
    IN  <<[w     |-> RMul(diff, RInt(size)),
           h     |-> RMul(diff, RInt(size)),
           x     |-> RSub(MousePos(m[1], diff), shift),
           y     |-> RSub(MousePos(m[2], diff), shift),
           color |-> OVERLAY]>>

\* the Brush::Circle preview: one unit rectangle per offset
CircleOverlay(m, size, diff) ==
    LET pts == calc_circle_pixels(size)
    IN  [k \in DOMAIN pts |->
            [w     |-> diff,
             h     |-> diff,
             x     |-> RAdd(RMul(RInt(pts[k][1]), diff), MousePos(m[1], diff)),
             y     |-> RAdd(RMul(RInt(pts[k][2]), diff), MousePos(m[2], diff)),
             color |-> OVERLAY]]

\* everything view() hands to draw, in order
ViewRects(p, gs, w, m, b, size) ==
    LET diff == Diff(w, gs)
    IN  GridRects(p, 0, diff)
        \o (IF b = "Square" THEN SquareOverlay(m, size, diff)
                             ELSE CircleOverlay(m, size, diff))

----------------------------------------------------------------------------
(* Events: fn event *)

\* Resized(_) => should_calc_positions = true, with the window's new size
Resized ==
    /\ phase = "input"
    /\ \E w \in WinSizes : win' = w
    /\ should_calc_positions' = TRUE
    /\ UNCHANGED <<pixels, drawing, erasing, should_reset, should_exit, brush,
                   brush_size, grid_size, primary_color, secondary_color,
                   mouse, draw, phase>>

\* the pointer moves: no arm of event(), read later through app.mouse
MouseMoved ==
    /\ phase = "input"
    /\ \E m \in MousePoints :
          /\ mouse # m
          /\ mouse' = m
    /\ UNCHANGED <<pixels, drawing, erasing, should_reset, should_exit,
                   should_calc_positions, brush, brush_size, grid_size,
                   primary_color, secondary_color, win, draw, phase>>

\* MousePressed(button); over = egui.ctx().is_pointer_over_area()
MousePressed(button, over) ==
    /\ phase = "input"
    /\ drawing' = IF ~over /\ button = "Left" THEN TRUE ELSE drawing
    /\ erasing' = IF ~over /\ button = "Right" THEN TRUE ELSE erasing
    /\ UNCHANGED <<pixels, should_reset, should_exit, should_calc_positions,
                   brush, brush_size, grid_size, primary_color,
                   secondary_color, win, mouse, draw, phase>>

\* mutant: a release of either button clears both flags
MouseReleased_ClearsBoth(button) ==
    /\ phase = "input"
    /\ drawing' = IF button \in {"Left", "Right"} THEN FALSE ELSE drawing
    /\ erasing' = IF button \in {"Left", "Right"} THEN FALSE ELSE erasing
    /\ UNCHANGED <<pixels, should_reset, should_exit, should_calc_positions,
                   brush, brush_size, grid_size, primary_color,
                   secondary_color, win, mouse, draw, phase>>

\* MouseReleased(button)
MouseReleased(button) ==
    /\ phase = "input"
    /\ drawing' = IF button = "Left" THEN FALSE ELSE drawing
    /\ erasing' = IF button = "Right" THEN FALSE ELSE erasing
    /\ UNCHANGED <<pixels, should_reset, should_exit, should_calc_positions,
                   brush, brush_size, grid_size, primary_color,
                   secondary_color, win, mouse, draw, phase>>

\* KeyPressed(key)
KeyPressed(key) ==
    /\ phase = "input"
    /\ should_exit' = IF key = "Q" THEN TRUE ELSE should_exit
    /\ should_reset' = IF key = "R" THEN TRUE ELSE should_reset
    /\ UNCHANGED <<pixels, drawing, erasing, should_calc_positions, brush,
                   brush_size, grid_size, primary_color, secondary_color,
                   win, mouse, draw, phase>>

Buttons == {"Left", "Right", "Middle"}
Keys == {"Q", "R", "Other"}

Press == \E button \in Buttons, over \in BOOLEAN : MousePressed(button, over)
Release == \E button \in Buttons : MouseReleased(button)
Key == \E key \in Keys : KeyPressed(key)

----------------------------------------------------------------------------
(* fn update *)

NoUI == <<"none", 0>>

\* what the egui windows of update() can report in one tick: at most one
\* widget responds per tick (one pointer, one focused widget)
UIInputs ==
    {NoUI, <<"reset", 0>>, <<"exit", 0>>}
    \cup {<<"primary", c>> : c \in PickerColors \ {primary_color}}
    \cup {<<"secondary", c>> : c \in PickerColors \ {secondary_color}}
    \cup {<<"grid", n>> : n \in (1..MaxGrid) \ {grid_size}}
    \cup {<<"brush_size", n>> : n \in (1..grid_size) \ {brush_size}}
    \cup {<<"brush", b>> : b \in {"Square", "Circle"} \ {brush}}

\* mutant: the new canvas sized from the old one, pixels.len()
ResetStep_OldSize(p, reset, gs) == IF reset THEN NewGrid(Side(p)) ELSE p

\* mutant: a reset at the size the canvas already has keeps the canvas
ResetStep_KeepSameSize(p, reset, gs) ==
    IF reset /\ Side(p) # gs THEN NewGrid(gs) ELSE p

\* the "Reset canvas" block
ResetStep(p, reset, gs) == IF reset THEN NewGrid(gs) ELSE p

\* the "Recalculate pixel positions" block
CalcStep(p, calc, gs, diff) == IF calc THEN CalcPositions(p, gs, diff) ELSE p

\* the grid as the reset and recalculation blocks leave it
AfterReset ==
    CalcStep(ResetStep(pixels, should_reset, grid_size),
             should_reset \/ should_calc_positions,
             grid_size, Diff(win, grid_size))

\* the paint block
PaintStep(p, targets, d, primary, secondary) ==
    SetColor(p, targets, PaintColor(d, primary, secondary))

\* one call of update(), the egui windows reporting ui
UpdateWith(ui) ==
    /\ phase = "input"
    /\ should_calc_positions' = FALSE
    /\ UNCHANGED <<drawing, erasing, win, mouse>>
    /\ draw' = <<>>
    /\ IF should_exit
       THEN \* std::process::exit(0)
            /\ phase' = "exited"
            /\ pixels' = AfterReset
            /\ should_reset' = FALSE
            /\ UNCHANGED <<should_exit, brush, brush_size, grid_size,
                           primary_color, secondary_color>>
       ELSE IF OutOfBounds(AfterReset, TickTargets)
       THEN \* index out of bounds: the thread panics
            /\ phase' = "panicked"
            /\ pixels' = AfterReset
            /\ should_reset' = FALSE
            /\ UNCHANGED <<should_exit, brush, brush_size, grid_size,
                           primary_color, secondary_color>>
       ELSE /\ phase' = "view"
            /\ pixels' = PaintStep(AfterReset, TickTargets, drawing,
                                   primary_color, secondary_color)
            /\ should_reset' = (ui[1] \in {"reset", "grid"})
            /\ should_exit' = (ui[1] = "exit")
            /\ primary_color' = IF ui[1] = "primary" THEN ui[2] ELSE primary_color
            /\ secondary_color' = IF ui[1] = "secondary" THEN ui[2] ELSE secondary_color
            /\ grid_size' = IF ui[1] = "grid" THEN ui[2] ELSE grid_size
            /\ brush_size' = IF ui[1] = "brush_size" THEN ui[2] ELSE brush_size
            /\ brush' = IF ui[1] = "brush" THEN ui[2] ELSE brush

Update == \E ui \in UIInputs : UpdateWith(ui)

----------------------------------------------------------------------------
(* fn view *)

\* mutant: the render pass recalculates the stored positions after drawing
DrawView_Recalc ==
    /\ phase = "view"
    /\ draw' = ViewRects(pixels, grid_size, win, mouse, brush, brush_size)
    /\ pixels' = CalcPositions(pixels, grid_size, Diff(win, grid_size))
    /\ phase' = "to_frame"
    /\ UNCHANGED <<drawing, erasing, should_reset, should_exit,
                   should_calc_positions, brush, brush_size, grid_size,
                   primary_color, secondary_color, win, mouse>>

\* view() up to "Finish drawing": the draw list is built
DrawView ==
    /\ phase = "view"
    /\ draw' = ViewRects(pixels, grid_size, win, mouse, brush, brush_size)
    /\ phase' = "to_frame"
    /\ UNCHANGED <<pixels, drawing, erasing, should_reset, should_exit,
                   should_calc_positions, brush, brush_size, grid_size,
                   primary_color, secondary_color, win, mouse>>

\* draw.to_frame(app, &frame): the draw list is rendered and drained
ToFrame ==
    /\ phase = "to_frame"
    /\ draw' = <<>>
    /\ phase' = "input"
    /\ UNCHANGED <<pixels, drawing, erasing, should_reset, should_exit,
                   should_calc_positions, brush, brush_size, grid_size,
                   primary_color, secondary_color, win, mouse>>

----------------------------------------------------------------------------
(* The application: fn model, then the loop.  The canvas of model() has    *)
(* DefaultGridSize columns; Init is the state after the first frame, in    *)
(* which, before any press, the "Grid Size" slider was moved into the      *)
(* bound: the reset it asked for is pending.                               *)

Init ==
    /\ pixels = NewGrid(DefaultGridSize)
    /\ drawing = FALSE
    /\ erasing = FALSE
    /\ should_reset = TRUE
    /\ should_exit = FALSE
    /\ should_calc_positions = FALSE
    /\ brush = "Square"
    /\ brush_size = 1
    /\ grid_size \in 1..MaxGrid
    /\ primary_color = WHITE
    /\ secondary_color = BLACK
    /\ win \in WinSizes
    /\ mouse \in MousePoints
    /\ draw = <<>>
    /\ phase = "input"

Next ==
    \/ Resized
    \/ MouseMoved
    \/ Press
    \/ Release
    \/ Key
    \/ Update
    \/ DrawView
    \/ ToFrame

Spec == Init /\ [][Next]_vars

----------------------------------------------------------------------------
(* One paint tick on a clean canvas, for every brush, size and pointer cell *)

\* no cell has been coloured
Untouched == \A x \in DOMAIN pixels : \A y \in DOMAIN pixels[x] :
                 pixels[x][y].color = BLACK

\* grid sizes of the brush specification: the small ones and the default
BrushGrids == (1..MaxBrushGrid) \cup {DefaultGridSize}

\* the pointer in the middle of the cell (cx, cy) of a g-grid, window side 2g
PointerAt(cx, cy, g) == <<2 * (cx - (g \div 2)) + 1, 2 * (cy - (g \div 2)) + 1>>

InitBrush ==
    /\ grid_size \in BrushGrids
    /\ win = 2 * grid_size
    /\ pixels = CalcPositions(NewGrid(grid_size), grid_size, Diff(win, grid_size))
    /\ drawing \in BOOLEAN
    /\ erasing = ~drawing
    /\ should_reset = FALSE
    /\ should_exit = FALSE
    /\ should_calc_positions = FALSE
    /\ brush \in {"Square", "Circle"}
    /\ brush_size \in 1..MaxBrushGrid
    /\ primary_color = WHITE
    /\ secondary_color = RED
    /\ \E cx \in (-MaxOut)..(grid_size - 1 + MaxOut),
          cy \in (-MaxOut)..(grid_size - 1 + MaxOut) :
              mouse = PointerAt(cx, cy, grid_size)
    /\ draw = <<>>
    /\ phase = "input"

\* update() on the clean canvas, no widget touched
PaintTick == Untouched /\ UpdateWith(NoUI)

NextBrush ==
    \/ PaintTick
    \/ DrawView
    \/ ToFrame

SpecBrush == InitBrush /\ [][NextBrush]_vars

----------------------------------------------------------------------------
(* The render pass on every colouring of a column *)

\* column x of the canvas is the colouring col rotated by x rows
Rotated(col, n) ==
    [x \in 0..(n - 1) |->
        [y \in 0..(n - 1) |->
            [color |-> col[(x + y) % n], x |-> RInt(0), y |-> RInt(0)]]]

InitView ==
    /\ grid_size \in 1..MaxColumn
    /\ win \in WinSizes
    /\ \E col \in [0..(grid_size - 1) -> {BLACK, WHITE, RED}] :
          pixels = CalcPositions(Rotated(col, grid_size), grid_size,
                                 Diff(win, grid_size))
    /\ drawing = FALSE
    /\ erasing = FALSE
    /\ should_reset = FALSE
    /\ should_exit = FALSE
    /\ should_calc_positions = FALSE
    /\ brush \in {"Square", "Circle"}
    /\ brush_size = 1
    /\ primary_color = WHITE
    /\ secondary_color = BLACK
    /\ mouse = <<2, 2>>
    /\ draw = <<>>
    /\ phase = "view"

NextView ==
    \/ DrawView
    \/ ToFrame

SpecView == InitView /\ [][NextView]_vars

----------------------------------------------------------------------------
(* One tick of the size-1 square brush, the R key pressed on a clean canvas, *)
(* for every pointer position in and around the grid                        *)

\* pointer coordinates on one axis: from below the first cell of any grid to
\* past the last cell of the 1-grid, which spans 0..w
PointerCoords(w) == (-(w \div 2) - 1)..w

InitPointer ==
    /\ grid_size \in 1..MaxPointerGrid
    /\ win \in WinSizes
    /\ pixels = CalcPositions(NewGrid(grid_size), grid_size, Diff(win, grid_size))
    /\ drawing = TRUE
    /\ erasing = FALSE
    /\ should_reset = TRUE
    /\ should_exit = FALSE
    /\ should_calc_positions = FALSE
    /\ brush = "Square"
    /\ brush_size = 1
    /\ primary_color = WHITE
    /\ secondary_color = BLACK
    /\ mouse \in PointerCoords(win) \X PointerCoords(win)
    /\ draw = <<>>
    /\ phase = "input"

NextPointer ==
    \/ PaintTick
    \/ DrawView
    \/ ToFrame

SpecPointer == InitPointer /\ [][NextPointer]_vars

----------------------------------------------------------------------------
(* Claims about one paint tick (SpecBrush) *)

\* the paint tick has run, once, on the clean canvas
Ticked == phase \in {"view", "to_frame"}

\* the cells the tick coloured
Painted ==
    {c \in (0..(grid_size - 1)) \X (0..(grid_size - 1)) :
        pixels[c[1]][c[2]].color # BLACK}

\* the cell the pointer of InitBrush is in
Centre == <<(mouse[1] - 1) \div 2 + (grid_size \div 2),
            (mouse[2] - 1) \div 2 + (grid_size \div 2)>>

\* every cell but the painted ones is as the clean canvas had it, and the
\* painted ones carry the colour of the held button
OnlyPainted ==
    \A x \in 0..(grid_size - 1) : \A y \in 0..(grid_size - 1) :
        /\ pixels[x][y].x = CellToWorld(x, grid_size, <<2, 1>>)
        /\ pixels[x][y].y = CellToWorld(y, grid_size, <<2, 1>>)
        /\ pixels[x][y].color \in {BLACK, IF drawing THEN WHITE ELSE RED}

SquareAt55 ==
    /\ Ticked
    /\ brush = "Square"
    /\ brush_size = 2
    /\ Centre = <<5, 5>>
    /\ grid_size >= 7

\* C1 as stated: the square brush of size 2 at centre (5,5) colours exactly
\* the cells (5,5), (5,6), (6,5), (6,6)
C1_Original ==
    SquareAt55 => Painted = {<<5, 5>>, <<5, 6>>, <<6, 5>>, <<6, 6>>}

\* C1 amended: the square brush of size 2 at centre (5,5) colours exactly the
\* cells (4,4), (4,5), (5,4), (5,5) and leaves every other cell unchanged
C1_Amended ==
    SquareAt55 => /\ Painted = {<<4, 4>>, <<4, 5>>, <<5, 4>>, <<5, 5>>}
                  /\ OnlyPainted

\* the size-2 square at (5,5) of the default grid
C1_Witness ==
    /\ SquareAt55
    /\ grid_size = DefaultGridSize
    /\ Painted = {<<4, 4>>, <<4, 5>>, <<5, 4>>, <<5, 5>>}


\* the integer interval [ceil(c - s/2), ceil(c + s/2)), each bound clamped to
\* [0, g]
CeilHalves(n) == (n + 1) \div 2
SquareSpan(c, s, g) ==
    {i \in 0..(g - 1) : /\ CeilHalves(2 * c - s) <= i
                        /\ i < CeilHalves(2 * c + s)}

\* the square of side s about c lies wholly inside the grid
SquareInside(c, s, g) ==
    /\ CeilHalves(2 * c[1] - s) >= 0 /\ CeilHalves(2 * c[1] + s) <= g
    /\ CeilHalves(2 * c[2] - s) >= 0 /\ CeilHalves(2 * c[2] + s) <= g

\* C7: a square-brush tick of size s at centre (cx,cy) colours exactly the
\* cells with x in [ceil(cx - s/2), ceil(cx + s/2)) and y likewise, the bounds
\* clamped to the grid: s*s cells when the square lies inside the grid, and
\* exactly (5,5) for s = 1 at (5,5)
C7_SquareRectangle ==
    (Ticked /\ brush = "Square") =>
        /\ Painted = SquareSpan(Centre[1], brush_size, grid_size)
                        \X SquareSpan(Centre[2], brush_size, grid_size)
        /\ SquareInside(Centre, brush_size, grid_size)
              => Cardinality(Painted) = brush_size * brush_size
        /\ (brush_size = 1 /\ Centre = <<5, 5>> /\ grid_size = DefaultGridSize)
              => Painted = {<<5, 5>>}

\* the size-1 square at (5,5) of the default grid
C7_Witness ==
    /\ Ticked
    /\ brush = "Square"
    /\ brush_size = 1
    /\ Centre = <<5, 5>>
    /\ grid_size = DefaultGridSize
    /\ Painted = {<<5, 5>>}

\* the offsets of a brush: the square's [ceil(-s/2), ceil(s/2)) on each axis,
\* the circle's lattice points of the disc of diameter s
SquareOffsets(s) ==
    LET span == {d \in (-s)..s : CeilHalves(-s) <= d /\ d < CeilHalves(s)}
    IN  span \X span
DiscOffsets(d) ==
    {o \in ((-(d \div 2))..(d \div 2)) \X ((-(d \div 2))..(d \div 2)) :
        4 * (o[1] * o[1] + o[2] * o[2]) <= d * d}
Offsets == IF brush = "Square" THEN SquareOffsets(brush_size)
                               ELSE DiscOffsets(brush_size)

\* the image of the offsets under per-axis clamping of centre + offset
ClampedImage ==
    LET cl(v) == IF v < 0 THEN 0
                 ELSE IF v > grid_size - 1 THEN grid_size - 1 ELSE v
    IN  {<<cl(Centre[1] + o[1]), cl(Centre[2] + o[2])>> : o \in Offsets}

CentreInGrid == /\ Centre[1] \in 0..(grid_size - 1)
                /\ Centre[2] \in 0..(grid_size - 1)

\* C2 as stated: for both brushes the tick colours the clamped image of the
\* offsets, so it colours at least one cell
C2_Original ==
    Ticked => (Painted = ClampedImage /\ Painted # {})

\* the square about the centre meets the grid on both axes
SquareMeets ==
    /\ SquareSpan(Centre[1], brush_size, grid_size) # {}
    /\ SquareSpan(Centre[2], brush_size, grid_size) # {}

\* C2 amended: the circle brush colours the clamped image of its offsets (at
\* least one cell); the square brush colours the clamped image whenever its
\* square meets the grid on both axes, as it does for every centre in the grid,
\* and colours no cell otherwise
C2_Amended ==
    Ticked =>
        /\ brush = "Circle" => (Painted = ClampedImage /\ Painted # {})
        /\ brush = "Square" =>
              /\ Painted \subseteq ClampedImage
              /\ SquareMeets => (Painted = ClampedImage /\ Painted # {})
              /\ CentreInGrid => SquareMeets
              /\ ~SquareMeets => Painted = {}

\* the circle piles up against the corner, the pointer outside the grid
C2_Witness ==
    /\ Ticked
    /\ brush = "Circle"
    /\ brush_size = 3
    /\ Centre = <<-1, -1>>
    /\ Painted = {<<0, 0>>}


IsOverlay(r) == r.color = OVERLAY
IsGridRect(r) == r.color # OVERLAY

\* the offsets the circle preview was drawn from: in SpecBrush a cell is 2
\* wide and the pointer is in the middle of its cell
OverlayOffsets ==
    LET ov == SelectSeq(draw, IsOverlay)
    IN  [k \in DOMAIN ov |->
            <<(ov[k].x[1] - mouse[1]) \div 2, (ov[k].y[1] - mouse[2]) \div 2>>]

\* C8: calc_circle_pixels(d) returns exactly the pairs (dx,dy) with dx, dy in
\* [-floor(d/2), floor(d/2)] and 4*(dx*dx + dy*dy) <= d*d, each once; for d = 4
\* it holds (2,0) and (0,2) and not (2,2)
C8_CircleLattice ==
    (phase = "to_frame" /\ brush = "Circle") =>
        LET offs == OverlayOffsets
            pts == calc_circle_pixels(brush_size)
        IN  /\ offs = pts
            /\ {pts[k] : k \in DOMAIN pts} = DiscOffsets(brush_size)
            /\ Len(pts) = Cardinality(DiscOffsets(brush_size))
            /\ brush_size = 4 =>
                  /\ \E k \in DOMAIN pts : pts[k] = <<2, 0>>
                  /\ \E k \in DOMAIN pts : pts[k] = <<0, 2>>
                  /\ \A k \in DOMAIN pts : pts[k] # <<2, 2>>

\* the preview of the circle of diameter 4: 13 offsets
C8_Witness ==
    /\ phase = "to_frame"
    /\ brush = "Circle"
    /\ brush_size = 4
    /\ \E k \in DOMAIN OverlayOffsets : OverlayOffsets[k] = <<2, 0>>
    /\ \E k \in DOMAIN OverlayOffsets : OverlayOffsets[k] = <<0, 2>>
    /\ Len(OverlayOffsets) = 13

\* the centre of cell c, as stored, lies in the rectangle r
CentreIn(r, c) ==
    LET p == pixels[c[1]][c[2]]
    IN  /\ RLeq(RSub(r.x, RDiv(r.w, RInt(2))), p.x)
        /\ RLeq(p.x, RAdd(r.x, RDiv(r.w, RInt(2))))
        /\ RLeq(RSub(r.y, RDiv(r.h, RInt(2))), p.y)
        /\ RLeq(p.y, RAdd(r.y, RDiv(r.h, RInt(2))))

\* the cells of the grid the preview overlay of the frame covers
PreviewCells ==
    {c \in (0..(grid_size - 1)) \X (0..(grid_size - 1)) :
        \E k \in DOMAIN draw : IsOverlay(draw[k]) /\ CentreIn(draw[k], c)}

\* the brush about the pointer's cell lies wholly inside the grid
BrushInside ==
    \A o \in Offsets :
        /\ Centre[1] + o[1] \in 0..(grid_size - 1)
        /\ Centre[2] + o[2] \in 0..(grid_size - 1)

\* C15: for both brushes and every size, odd or even, when the brush lies
\* wholly inside the grid the cells the preview overlay covers are the cells
\* the paint tick at the same pointer position coloured
C15_PreviewIsPaint ==
    (phase = "to_frame" /\ BrushInside) => PreviewCells = Painted

\* the even square of size 2 about (5,5) of the default grid
C15_Witness ==
    /\ phase = "to_frame"
    /\ brush = "Square"
    /\ brush_size = 2
    /\ grid_size = DefaultGridSize
    /\ Centre = <<5, 5>>
    /\ BrushInside
    /\ PreviewCells = {<<4, 4>>, <<4, 5>>, <<5, 4>>, <<5, 5>>}
    /\ Painted = PreviewCells

----------------------------------------------------------------------------
(* Claims about the pointer mapping (SpecPointer) *)

\* (i - (gridSize/2 - 0.5)) * edgeLength, the division of gridSize truncating
WorldCentre(i) ==
    Rat((2 * i - 2 * (grid_size \div 2) + 1) * win, 2 * grid_size)

\* the coordinate m lies in the square of the cell with centre c: the lower
\* edge and the interior
InCellSquare(m, c) ==
    LET half == Rat(win, 2 * grid_size)
    IN  /\ RLeq(RSub(c, half), RInt(m))
        /\ ~RLeq(RAdd(c, half), RInt(m))

\* C16: for every grid size, even or odd, the stored centre of cell i is
\* (i - (gridSize/2 - 0.5)) * edgeLength and maps back to i under
\* floor(p / edgeLength) + gridSize/2; a pointer anywhere in the square of cell
\* (i,j) is resolved to (i,j): the size-1 brush colours that cell and no other
C16_CellRoundTrip ==
    Ticked =>
        \A i \in 0..(grid_size - 1) : \A j \in 0..(grid_size - 1) :
            /\ pixels[i][j].x = WorldCentre(i)
            /\ pixels[i][j].y = WorldCentre(j)
            /\ WorldToCell(pixels[i][j].x, grid_size, Diff(win, grid_size)) = i
            /\ WorldToCell(pixels[i][j].y, grid_size, Diff(win, grid_size)) = j
            /\ (InCellSquare(mouse[1], pixels[i][j].x)
                    /\ InCellSquare(mouse[2], pixels[i][j].y))
                  => Painted = {<<i, j>>}

\* the last cell of the odd 5-grid, the pointer off its centre
C16_Witness ==
    /\ Ticked
    /\ grid_size = 5
    /\ win = 12
    /\ mouse = <<5, 7>>
    /\ Painted = {<<4, 4>>}

----------------------------------------------------------------------------
(* Claims about the render pass (SpecView) *)

\* row y starts a maximal run of column x
IsRunStart(x, y) == y = 0 \/ pixels[x][y - 1].color # pixels[x][y].color

\* the length of the maximal run of column x that starts at row y
RunLength(x, y) ==
    CHOOSE k \in 1..(Side(pixels) - y) :
        /\ \A j \in 0..(k - 1) : pixels[x][y + j].color = pixels[x][y].color
        /\ \/ y + k = Side(pixels)
           \/ pixels[x][y + k].color # pixels[x][y].color

\* height and colour of one rectangle per maximal run, in row order
RECURSIVE RunsOfColumn(_, _)
RunsOfColumn(x, y) ==
    IF y >= Side(pixels) THEN <<>>
    ELSE (IF IsRunStart(x, y)
          THEN <<[h |-> RMul(Diff(win, grid_size), RInt(RunLength(x, y))),
                  color |-> pixels[x][y].color]>>
          ELSE <<>>)
         \o RunsOfColumn(x, y + 1)

RECURSIVE RunsFrom(_)
RunsFrom(x) ==
    IF x >= Side(pixels) THEN <<>> ELSE RunsOfColumn(x, 0) \o RunsFrom(x + 1)

\* height and colour of the grid rectangles view() drew
DrawnRuns ==
    LET g == SelectSeq(draw, IsGridRect)
    IN  [k \in DOMAIN g |-> [h |-> g[k].h, color |-> g[k].color]]

\* C3 as stated: the render pass emits for every column exactly one rectangle
\* per maximal run of equal-coloured cells, in row order, its height the run
\* length; a row covered by an earlier run starts no rectangle
C3_OneRectPerRun ==
    phase = "to_frame" => DrawnRuns = RunsFrom(0)


\* the rectangle r, centred on (r.x, r.y), lies in the column of cell (x,y)
\* and spans the centre of that cell
Covers(r, x, y) ==
    /\ r.x = pixels[x][y].x
    /\ RLeq(RSub(r.y, RDiv(r.h, RInt(2))), pixels[x][y].y)
    /\ RLeq(pixels[x][y].y, RAdd(r.y, RDiv(r.h, RInt(2))))

\* the rows of column x the rectangle r covers
RowsCovered(r, x) == {y \in DOMAIN pixels[x] : Covers(r, x, y)}

\* the rectangle r spans whole cells of one column of the grid, no more
InsideColumn(r) ==
    \E x \in DOMAIN pixels :
        /\ r.x = pixels[x][0].x
        /\ r.w = Diff(win, grid_size)
        /\ r.h = RMul(Diff(win, grid_size), RInt(Cardinality(RowsCovered(r, x))))

\* C14: with the stored positions up to date the grid rectangles reproduce the
\* grid: every cell is covered by a rectangle of its column, a rectangle
\* covers only cells of its own colour, and no rectangle extends past the
\* first or the last row
C14_RectsReproduceGrid ==
    phase = "to_frame" =>
        LET g == SelectSeq(draw, IsGridRect)
        IN  /\ \A x \in DOMAIN pixels : \A y \in DOMAIN pixels[x] :
                  \E k \in DOMAIN g : Covers(g[k], x, y)
            /\ \A k \in DOMAIN g : \A x \in DOMAIN pixels :
                  \A y \in RowsCovered(g[k], x) :
                      pixels[x][y].color = g[k].color
            /\ \A k \in DOMAIN g : InsideColumn(g[k])

\* the column WHITE, BLACK, BLACK, whose last cell is drawn twice
C14_Witness ==
    /\ phase = "to_frame"
    /\ grid_size = 3
    /\ pixels[0][0].color = WHITE
    /\ pixels[0][1].color = BLACK
    /\ pixels[0][2].color = BLACK
    /\ \E k \in DOMAIN draw :
          /\ IsGridRect(draw[k])
          /\ RowsCovered(draw[k], 0) = {1, 2}
    /\ \E k \in DOMAIN draw :
          /\ IsGridRect(draw[k])
          /\ RowsCovered(draw[k], 0) = {2}

----------------------------------------------------------------------------
(* Claims about the application (Spec) *)

\* a step of update() that ran to its end
TickStep == phase = "input" /\ phase' = "view"

\* a step of update(), however it ended
UpdateStep == phase = "input" /\ phase' # "input"

\* every cell of p has the default colour
AllDefault(p) == \A x \in DOMAIN p : \A y \in DOMAIN p[x] : p[x][y].color = BLACK

\* p has exactly n columns of exactly n cells, indexed from 0
IsSquareGrid(p, n) ==
    /\ DOMAIN p = 0..(n - 1)
    /\ \A x \in DOMAIN p : DOMAIN p[x] = 0..(n - 1)

\* C4 as stated: in every render phase the stored grid's side length equals
\* the configured grid size the cell edge length is computed from
C4_RenderSeesResetGrid ==
    phase = "view" => Side(pixels) = grid_size

\* C5 as stated: at the end of the update tick that applies a pending reset
\* every cell has the default colour, whatever the button flags are
C5_Original ==
    [][(TickStep /\ should_reset) => AllDefault(pixels')]_vars

\* C5 amended: at the end of the update tick that applies a pending reset
\* every cell has the default colour when neither button flag is set; when
\* one is set the tick paints after the reset, and every cell has the default
\* colour or the colour of that tick's paint
C5_Amended ==
    [][(UpdateStep /\ should_reset) =>
          /\ (~drawing /\ ~erasing) => AllDefault(pixels')
          /\ should_exit => AllDefault(pixels')
          /\ \A x \in DOMAIN pixels' : \A y \in DOMAIN pixels'[x] :
                pixels'[x][y].color \in
                    {BLACK, IF drawing THEN primary_color ELSE secondary_color}
      ]_vars

\* a coloured canvas with a reset at the same size pending, no button held
C5_Witness ==
    /\ phase = "input"
    /\ should_reset
    /\ ~should_exit
    /\ ~drawing /\ ~erasing
    /\ Side(pixels) = grid_size
    /\ ~AllDefault(pixels)

\* C6: no paint tick indexes the stored grid outside 0 <= x, y < its side
\* length: the out-of-range access, a panic, is unreachable
C6_NoOutOfRange ==
    /\ phase # "panicked"
    /\ (phase = "input" /\ ~should_reset) => Side(pixels) = grid_size

\* a circle of diameter 2 left over from a larger grid has painted the
\* 1-grid, the pointer outside the grid
C6_Witness ==
    /\ phase = "view"
    /\ Side(pixels) = 1
    /\ grid_size = 1
    /\ brush = "Circle"
    /\ brush_size = 2
    /\ drawing
    /\ mouse = <<-7, -7>>
    /\ primary_color = WHITE
    /\ pixels[0][0].color = WHITE

\* C9: right after the reset step the grid holds exactly grid_size columns of
\* grid_size cells, all of the default colour, and so does the canvas of
\* model() for the default grid size
C9_ResetGrid ==
    /\ IsSquareGrid(pixels, DefaultGridSize) /\ AllDefault(pixels)
    /\ [][(UpdateStep /\ should_reset) =>
            /\ IsSquareGrid(pixels', grid_size)
            /\ Cardinality({c \in (DOMAIN pixels') \X (0..(grid_size - 1)) :
                              c[2] \in DOMAIN pixels'[c[1]]})
                  = grid_size * grid_size
            /\ (should_exit \/ (~drawing /\ ~erasing)) => AllDefault(pixels')
         ]_vars

\* a coloured 2-grid about to be reset to a 1-grid
C9_Witness ==
    /\ phase = "input"
    /\ should_reset
    /\ ~should_exit
    /\ Side(pixels) = 2
    /\ grid_size = 1
    /\ ~AllDefault(pixels)

\* the colour of cell (x,y) before the paint block of the tick
BeforePaint(x, y) == IF should_reset THEN BLACK ELSE pixels[x][y].color

\* C10: in a tick with the painting flag set every cell the tick colours
\* receives the primary colour, erasing set or not; the secondary colour is
\* applied only with erasing set and painting not
C10_PaintFirst ==
    [][TickStep =>
          \A x \in DOMAIN pixels' : \A y \in DOMAIN pixels'[x] :
              pixels'[x][y].color # BeforePaint(x, y) =>
                  IF drawing THEN pixels'[x][y].color = primary_color
                  ELSE erasing /\ pixels'[x][y].color = secondary_color
      ]_vars

\* both buttons held over a cell of the secondary colour, the colours differ
C10_Witness ==
    /\ phase = "input"
    /\ drawing /\ erasing
    /\ ~should_exit /\ ~should_reset
    /\ primary_color = WHITE /\ secondary_color = BLACK
    /\ brush = "Square"
    /\ grid_size = 2 /\ win = 12 /\ mouse = <<2, 2>>
    /\ pixels[1][1].color = BLACK

\* the position the recalculation pass gives cell (x,y) for the current grid
\* size and window
OnDemand(x, y) ==
    [x |-> CellToWorld(x, grid_size, Diff(win, grid_size)),
     y |-> CellToWorld(y, grid_size, Diff(win, grid_size))]

\* C11 as stated: in every render phase the position stored in each cell
\* equals the position computed on demand from the current grid size and
\* window: the stored positions are never stale when they are drawn
C11_PositionsFresh ==
    phase = "view" =>
        \A x \in DOMAIN pixels : \A y \in DOMAIN pixels[x] :
            /\ pixels[x][y].x = OnDemand(x, y).x
            /\ pixels[x][y].y = OnDemand(x, y).y

\* C12 as stated: at the start of every update tick the brush size lies in
\* 1..grid_size, also after the grid size was reduced below the brush size
C12_BrushSizeInRange ==
    phase = "input" => (1 <= brush_size /\ brush_size <= grid_size)

\* what view() reads: the grid, the settings, the window and the pointer
ViewInputs == <<pixels, grid_size, win, mouse, brush, brush_size>>

Colours(p) == [x \in DOMAIN p |-> [y \in DOMAIN p[x] |-> p[x][y].color]]

\* C17: a step that is not an update tick (a press, release, key or window
\* event, the render pass) changes no cell, and an update tick with neither
\* button flag set and no reset pending leaves every cell's colour and the
\* grid's dimensions unchanged
C17_ColoursOnlyInTick ==
    [][/\ ~UpdateStep => pixels' = pixels
       /\ (UpdateStep /\ ~drawing /\ ~erasing /\ ~should_reset)
             => Colours(pixels') = Colours(pixels)
      ]_vars

\* an idle tick about to run, the pointer over a cell that is not of the
\* secondary colour
C17_Witness ==
    /\ phase = "input"
    /\ ~drawing /\ ~erasing
    /\ ~should_reset /\ ~should_exit
    /\ grid_size = 2 /\ win = 12 /\ mouse = <<2, 2>>
    /\ secondary_color = BLACK
    /\ pixels[1][1].color = WHITE

\* C18: no step changes both button flags; a press or release of the paint
\* button leaves erasing as it was and one of the erase button leaves drawing
\* as it was; a release clears its button's flag whatever the pointer is
\* over, and a press with the pointer over the settings panel sets no flag
C18_FlagsIndependent ==
    [][/\ drawing' # drawing => erasing' = erasing
       /\ \A over \in BOOLEAN :
             /\ MousePressed("Left", over) => erasing' = erasing
             /\ MousePressed("Right", over) => drawing' = drawing
       /\ MouseReleased("Left") => (~drawing' /\ erasing' = erasing)
       /\ MouseReleased("Right") => (~erasing' /\ drawing' = drawing)
       /\ \A button \in Buttons :
             MousePressed(button, TRUE) => UNCHANGED <<drawing, erasing>>
      ]_vars

\* both buttons are held: each press left the other flag alone
C18_Witness ==
    /\ phase = "input"
    /\ drawing
    /\ erasing

====
